---- MODULE Spec2Model ----
(***************************************************************************)
(* A model of src/main.rs: the raw-mode session guard (CleanUp), the       *)
(* staged frame buffer (EditorContents), the renderer (Output), the        *)
(* blocking key reader (Reader), the cursor state (CursorController) and   *)
(* the event loop (Editor::run, main).                                     *)
(*                                                                         *)
(* Terminal output is a sequence of tokens: a one-character string is a    *)
(* character of text, the longer strings are crossterm commands.           *)
(***************************************************************************)
EXTENDS Integers, Sequences, FiniteSets, TLC

VARIABLES
    pc,            \* position of main in its code
    build,         \* "debug" (overflow checks panic) or "release" (wrapping)
    guard,         \* TRUE while the CleanUp value of main is alive
    term_size,     \* <<columns, rows>> the terminal reports
    term,          \* the terminal: raw mode, glyph cells, write position, cursor shown
    win_size,      \* Output.win_size
    content,       \* Output.editor_contents.content
    cursor_x,      \* Output.cursor_controller.cursor_x
    cursor_y,      \* Output.cursor_controller.cursor_y
    key,           \* the KeyEvent read_key returned last
    result,        \* what main returns: "none", "Ok", "Err"
    unwinding,     \* TRUE while a panic unwinds main
    fault,         \* what ended the loop: "none", or the failing operation
    exit_status,   \* "running", "success", "error", "panic", "abort"
    release,       \* what CleanUp::drop did: "none", "done", "disable_failed", "clear_failed"
    frameWrites,   \* device writes since the current refresh began
    lastWritten,   \* tokens of the most recent device write
    nRefresh,      \* refreshes completed
    nReads,        \* key events read_key has returned
    nMoves,        \* cursor transitions invoked
    nPolls,        \* polls of the current read_key call
    polled,        \* what the input source gave read_key last
    nEnable        \* calls of terminal::enable_raw_mode

vars == <<pc, build, guard, term_size, term, win_size, content, cursor_x, cursor_y,
          key, result, unwinding, fault, exit_status, release, frameWrites,
          lastWritten, nRefresh, nReads, nMoves, nPolls, polled,
          nEnable>>

----------------------------------------------------------------------------
(* Bounds of the model *)

\* usize arithmetic is modelled modulo UsizeModulus (the width scaled down)
UsizeModulus == 4
\* terminal sizes range over 1..MaxColumns x 1..MaxRows
MaxColumns == 2
MaxRows == 3
\* loop iterations of main
MaxIter == 4
\* polls one read_key call makes before an event must be a key or an error
MaxPolls == 2
\* terminal sizes of the runs that only stage the first frame range over
\* 1..MaxDrawColumns x 1..MaxDrawRows
MaxDrawColumns == 41
MaxDrawRows == 24

UsizeMax == UsizeModulus - 1

----------------------------------------------------------------------------
(* Text and commands *)

\* format!("Pound Editor --- Version {}", "0.0.1")
welcome_text ==
    << "P","o","u","n","d"," ","E","d","i","t","o","r"," ","-","-","-"," ",
       "V","e","r","s","i","o","n"," ","0",".","0",".","1" >>

Commands == {"Hide", "Show", "ClearAll", "ClearUntilNewLine", "MoveTo(0,0)"}

Min(a, b) == IF a < b THEN a ELSE b

\* a truncate that leaves the string as it is
truncate_none(s, n) == s

\* String::truncate(n)
truncate(s, n) == IF Len(s) > n THEN SubSeq(s, 1, n) ELSE s

\* n copies of ch
Repeat(ch, n) == [i \in 1..n |-> ch]

----------------------------------------------------------------------------
(* The terminal device: what the tokens written to stdout do to the screen *)

AllCells(size) == (0..(size[1] - 1)) \X (0..(size[2] - 1))

\* one token reaching the terminal `t` of size `size`
apply_token(t, tok, size) ==
    LET x == t.cur[1]
        y == t.cur[2]
        \* a character written in the pending-wrap position goes to the next line
        wx == IF x >= size[1] THEN 0 ELSE x
        wy == IF x >= size[1] THEN Min(y + 1, size[2] - 1) ELSE y
    IN  CASE tok = "Hide" -> [t EXCEPT !.shown = FALSE]
          [] tok = "Show" -> [t EXCEPT !.shown = TRUE]
          [] tok = "ClearAll" -> [t EXCEPT !.cells = {}]
          [] tok = "ClearUntilNewLine" ->
                [t EXCEPT !.cells = {c \in t.cells : ~(c[2] = y /\ c[1] >= x)}]
          [] tok = "MoveTo(0,0)" -> [t EXCEPT !.cur = <<0, 0>>]
          [] tok = "\r" -> [t EXCEPT !.cur = <<0, y>>]
          [] tok = "\n" -> [t EXCEPT !.cur = <<x, Min(y + 1, size[2] - 1)>>]
          [] tok = " " -> [t EXCEPT !.cells = t.cells \ {<<wx, wy>>},
                                    !.cur = <<wx + 1, wy>>]
          [] OTHER -> [t EXCEPT !.cells = t.cells \cup {<<wx, wy>>},
                                !.cur = <<wx + 1, wy>>]

RECURSIVE apply_tokens(_, _, _)
apply_tokens(t, toks, size) ==
    IF toks = <<>> THEN t
    ELSE apply_tokens(apply_token(t, Head(toks), size), Tail(toks), size)

----------------------------------------------------------------------------
(* EditorContents *)

\* std::str::from_utf8(buf).is_ok(): every token the program stages is text
IsUtf8(buf) == \A i \in 1..Len(buf) : buf[i] # "\\xff"

\* EditorContents::push
push(c, ch) == Append(c, ch)

\* EditorContents::push_str
push_str(c, string) == c \o string

\* <EditorContents as io::Write>::write
write(c, buf) ==
    IF IsUtf8(buf)
    THEN [result |-> "Ok", content |-> push_str(c, buf)]
    ELSE [result |-> "Err", content |-> c]

\* a queue! that names stdout() instead of the buffer
queue_to_stdout(st, cmds) ==
    [result |-> st.result, content |-> st.content, stdout |-> st.stdout \o cmds]

\* queue!(self.editor_contents, cmds): the commands are written into the buffer.
\* st = [result, content, stdout]: stdout is what reached the device meanwhile.
queue(st, cmds) ==
    LET w == write(st.content, cmds)
    IN  [result |-> w.result, content |-> w.content, stdout |-> st.stdout]

\* where a failing device write may stop: before the first token, halfway, or
\* before the last token
CutPoints(c) == {0, Len(c) \div 2, Len(c) - 1}

\* a flush that leaves the buffer as it is
flush_no_clear(c, wok, fok, n) ==
    [result |-> IF wok /\ fok THEN "Ok" ELSE "Err", content |-> c,
     stdout |-> IF wok THEN c ELSE SubSeq(c, 1, n), writes |-> 1]

\* <EditorContents as io::Write>::flush. wok: write!(stdout(), ..) succeeds,
\* otherwise only the first n tokens reach the device; fok: stdout().flush()
\* succeeds. writes: the device writes it made.
flush(c, wok, fok, n) ==
    LET delivered == IF wok THEN c ELSE SubSeq(c, 1, n)
        out == IF wok THEN "Ok" ELSE "Err"
    IN  IF ~fok
        THEN [result |-> "Err", content |-> c, stdout |-> delivered, writes |-> 1]
        ELSE [result |-> out, content |-> <<>>, stdout |-> delivered, writes |-> 1]

----------------------------------------------------------------------------
(* Output::draw_rows *)

\* a row loop that puts the banner on the middle row
row_text_middle(c, i, screen_columns, screen_rows) ==
    IF i = screen_rows \div 2
    THEN LET welcome == truncate(welcome_text, screen_columns)
             padding == (screen_columns - Len(welcome)) \div 2
             marked == IF padding # 0 THEN push(c, "~") ELSE c
             rest == IF padding # 0 THEN padding - 1 ELSE padding
         IN  push_str(push_str(marked, Repeat(" ", rest)), welcome)
    ELSE push(c, "~")

\* a banner row whose marker does not take one column of the padding
row_text_full_padding(c, i, screen_columns, screen_rows) ==
    IF i = screen_rows \div 3
    THEN LET welcome == truncate(welcome_text, screen_columns)
             padding == (screen_columns - Len(welcome)) \div 2
             marked == IF padding # 0 THEN push(c, "~") ELSE c
         IN  push_str(push_str(marked, Repeat(" ", padding)), welcome)
    ELSE push(c, "~")

\* the text of row i
row_text(c, i, screen_columns, screen_rows) ==
    IF i = screen_rows \div 3
    THEN LET welcome == truncate(welcome_text, screen_columns)
             padding == (screen_columns - Len(welcome)) \div 2
             marked == IF padding # 0 THEN push(c, "~") ELSE c
             rest == IF padding # 0 THEN padding - 1 ELSE padding
         IN  push_str(push_str(marked, Repeat(" ", rest)), welcome)
    ELSE push(c, "~")

\* a loop body that ends the last row with a line break as well
draw_row_always_breaks(st, i, screen_columns, screen_rows) ==
    LET q == queue([st EXCEPT !.content = row_text(st.content, i, screen_columns,
                                                   screen_rows)],
                   <<"ClearUntilNewLine">>)
    IN  IF q.result = "Err" THEN q
        ELSE [q EXCEPT !.content = push_str(q.content, <<"\r", "\n">>)]

\* one turn of the loop over the rows
draw_row(st, i, screen_columns, screen_rows) ==
    LET q == queue([st EXCEPT !.content = row_text(st.content, i, screen_columns,
                                                   screen_rows)],
                   <<"ClearUntilNewLine">>)
    IN  IF q.result = "Err" THEN q
        ELSE IF i < screen_rows - 1
        THEN [q EXCEPT !.content = push_str(q.content, <<"\r", "\n">>)]
        ELSE q

RECURSIVE draw_rows_from(_, _, _, _)
draw_rows_from(st, i, screen_columns, screen_rows) ==
    IF i >= screen_rows \/ st.result = "Err" THEN st
    ELSE draw_rows_from(draw_row(st, i, screen_columns, screen_rows), i + 1,
                        screen_columns, screen_rows)

\* Output::draw_rows with win_size = size
draw_rows(st, size) == draw_rows_from(st, 0, size[1], size[2])

----------------------------------------------------------------------------
(* CursorController *)

\* v - 1 on a usize: the value release builds produce
wrapping_dec(v) == (v + UsizeModulus - 1) % UsizeModulus

\* v + 1 on a usize: the value release builds produce
wrapping_inc(v) == (v + 1) % UsizeModulus

\* a move_cursor whose arms for 'w' and 's' are exchanged
move_cursor_swapped(direction, x, y, bld) ==
    LET dec(v) == IF v = 0 /\ bld = "debug" THEN [panic |-> TRUE, v |-> v]
                  ELSE [panic |-> FALSE, v |-> wrapping_dec(v)]
        inc(v) == IF v = UsizeMax /\ bld = "debug" THEN [panic |-> TRUE, v |-> v]
                  ELSE [panic |-> FALSE, v |-> wrapping_inc(v)]
        why(r) == IF r.panic THEN "overflow" ELSE "none"
    IN  CASE direction = "s" -> [panic |-> dec(y).panic, why |-> why(dec(y)), x |-> x, y |-> dec(y).v]
          [] direction = "a" -> [panic |-> dec(x).panic, why |-> why(dec(x)), x |-> dec(x).v, y |-> y]
          [] direction = "w" -> [panic |-> inc(y).panic, why |-> why(inc(y)), x |-> x, y |-> inc(y).v]
          [] direction = "d" -> [panic |-> inc(x).panic, why |-> why(inc(x)), x |-> inc(x).v, y |-> y]
          [] OTHER -> [panic |-> TRUE, why |-> "unimplemented", x |-> x, y |-> y]

\* CursorController::move_cursor. An overflowing -= 1 or += 1 panics in a build
\* with overflow checks and wraps in one without.
move_cursor(direction, x, y, bld) ==
    LET dec(v) == IF v = 0 /\ bld = "debug" THEN [panic |-> TRUE, v |-> v]
                  ELSE [panic |-> FALSE, v |-> wrapping_dec(v)]
        inc(v) == IF v = UsizeMax /\ bld = "debug" THEN [panic |-> TRUE, v |-> v]
                  ELSE [panic |-> FALSE, v |-> wrapping_inc(v)]
        why(r) == IF r.panic THEN "overflow" ELSE "none"
    IN  CASE direction = "w" -> [panic |-> dec(y).panic, why |-> why(dec(y)), x |-> x, y |-> dec(y).v]
          [] direction = "a" -> [panic |-> dec(x).panic, why |-> why(dec(x)), x |-> dec(x).v, y |-> y]
          [] direction = "s" -> [panic |-> inc(y).panic, why |-> why(inc(y)), x |-> x, y |-> inc(y).v]
          [] direction = "d" -> [panic |-> inc(x).panic, why |-> why(inc(x)), x |-> inc(x).v, y |-> y]
          \* unimplemented!()
          [] OTHER -> [panic |-> TRUE, why |-> "unimplemented", x |-> x, y |-> y]

----------------------------------------------------------------------------
(* Key events and Editor::process_keypress *)

NONE == {}
CONTROL == {"CONTROL"}
Modifiers == SUBSET {"CONTROL", "SHIFT"}

\* KeyCode: the characters are KeyCode::Char, "Esc" is a named key
Codes == {"q", "w", "a", "s", "d", "x", "Esc"}
KeyEvents == [code : Codes, modifiers : Modifiers]
NoKey == [code |-> "none", modifiers |-> NONE]
QuitKey == [code |-> "q", modifiers |-> CONTROL]
MoveChars == {"w", "a", "s", "d"}

\* a dispatcher whose quit arm returns Ok(true)
process_keypress_no_quit(k, x, y, bld) ==
    IF k.code \in MoveChars /\ k.modifiers = NONE
    THEN LET m == move_cursor(k.code, x, y, bld)
         IN  [outcome |-> IF m.panic THEN "panic" ELSE "continue",
              moved |-> TRUE, direction |-> k.code, why |-> m.why,
              x |-> m.x, y |-> m.y]
    ELSE [outcome |-> "continue", moved |-> FALSE, direction |-> "none",
          why |-> "none", x |-> x, y |-> y]

\* a dispatcher whose movement arm also takes 'x', a key move_cursor has no arm for
process_keypress_wide(k, x, y, bld) ==
    IF k.code = "q" /\ k.modifiers = CONTROL
    THEN [outcome |-> "quit", moved |-> FALSE, direction |-> "none", why |-> "none",
          x |-> x, y |-> y]
    ELSE IF k.code \in MoveChars \cup {"x"} /\ k.modifiers = NONE
    THEN LET m == move_cursor(k.code, x, y, bld)
         IN  [outcome |-> IF m.panic THEN "panic" ELSE "continue",
              moved |-> TRUE, direction |-> k.code, why |-> m.why,
              x |-> m.x, y |-> m.y]
    ELSE [outcome |-> "continue", moved |-> FALSE, direction |-> "none",
          why |-> "none", x |-> x, y |-> y]

\* Editor::process_keypress on the key event k read_key returned.
\* outcome: "quit" is Ok(false), "continue" is Ok(true), "panic" is an unwind.
process_keypress(k, x, y, bld) ==
    IF k.code = "q" /\ k.modifiers = CONTROL
    THEN [outcome |-> "quit", moved |-> FALSE, direction |-> "none", why |-> "none",
          x |-> x, y |-> y]
    ELSE IF k.code \in MoveChars /\ k.modifiers = NONE
    THEN LET m == move_cursor(k.code, x, y, bld)
         IN  [outcome |-> IF m.panic THEN "panic" ELSE "continue",
              moved |-> TRUE, direction |-> k.code, why |-> m.why,
              x |-> m.x, y |-> m.y]
    ELSE [outcome |-> "continue", moved |-> FALSE, direction |-> "none",
          why |-> "none", x |-> x, y |-> y]

----------------------------------------------------------------------------
(* CleanUp *)

\* Output::clear_screen: two execute! on stdout, the second only if the first
\* succeeded. c1ok, c2ok: the first, the second execute! succeeds.
clear_screen(t, size, c1ok, c2ok) ==
    IF ~c1ok THEN [result |-> "Err", term |-> t]
    ELSE LET t1 == apply_token(t, "ClearUntilNewLine", size)
         IN  IF ~c2ok THEN [result |-> "Err", term |-> t1]
             ELSE [result |-> "Ok", term |-> apply_token(t1, "MoveTo(0,0)", size)]

\* terminal::disable_raw_mode: restores the saved mode if raw mode was enabled
disable_raw_mode(t, dok) ==
    IF t.raw /\ ~dok THEN [result |-> "Err", term |-> t]
    ELSE [result |-> "Ok", term |-> [t EXCEPT !.raw = FALSE]]

\* a guard that is forgotten instead of dropped (std::mem::forget, or a
\* teardown function that an early return skips)
drop_skipped(t, size, unw, res, dok, c1ok, c2ok) ==
    [term |-> t, release |-> "none",
     status |-> IF unw THEN "panic" ELSE IF res = "Ok" THEN "success" ELSE "error"]

\* <CleanUp as Drop>::drop, run when main returns `res` or unwinds (unw), and
\* the exit status of the process after it. A panic of an expect during an
\* unwind aborts the process.
drop(t, size, unw, res, dok, c1ok, c2ok) ==
    LET d == disable_raw_mode(t, dok)
        c == clear_screen(d.term, size, c1ok, c2ok)
        panicked == IF unw THEN "abort" ELSE "panic"
    IN  IF d.result = "Err"
        THEN [term |-> d.term, release |-> "disable_failed", status |-> panicked]
        ELSE IF c.result = "Err"
        THEN [term |-> c.term, release |-> "clear_failed", status |-> panicked]
        ELSE [term |-> c.term, release |-> "done",
              status |-> IF unw THEN "panic"
                         ELSE IF res = "Ok" THEN "success" ELSE "error"]

----------------------------------------------------------------------------
(* The program *)

\* the process at the entry of main, on a terminal whose size is in `sizes`
Start(sizes) ==
    /\ pc = "main"
    /\ build \in {"debug", "release"}
    /\ guard = FALSE
    /\ term_size \in sizes
    /\ term = [raw |-> FALSE, shown |-> TRUE, cur |-> <<0, 0>>, cells |-> {}]
    /\ win_size = <<0, 0>>
    /\ content = <<>>
    /\ cursor_x = 0
    /\ cursor_y = 0
    /\ key = NoKey
    /\ result = "none"
    /\ unwinding = FALSE
    /\ fault = "none"
    /\ exit_status = "running"
    /\ release = "none"
    /\ frameWrites = 0
    /\ lastWritten = <<>>
    /\ nRefresh = 0
    /\ nReads = 0
    /\ nMoves = 0
    /\ nPolls = 0
    /\ polled = "none"
    /\ nEnable = 0

Init == Start((1..MaxColumns) \X (1..MaxRows))

\* main returns Err(e) from a `?`
Fail(what) ==
    /\ fault' = what
    /\ result' = "Err"
    /\ pc' = "drop"
    /\ UNCHANGED unwinding

\* a panic unwinds main
Panic(what) ==
    /\ fault' = what
    /\ unwinding' = TRUE
    /\ pc' = "drop"
    /\ UNCHANGED result

\* tokens reach the device in `writes` device writes
Emit(toks, writes) ==
    /\ term' = apply_tokens(term, toks, term_size)
    /\ frameWrites' = frameWrites + writes
    /\ lastWritten' = IF writes > 0 THEN toks ELSE lastWritten

\* the device writes a staging step made: none unless the step bypassed the buffer
Staged(st) == Emit(st.stdout, IF st.stdout = <<>> THEN 0 ELSE 1)

\* main: let _clean_up = CleanUp;
MainGuard ==
    /\ pc = "main"
    /\ guard' = TRUE
    /\ pc' = "enable"
    /\ UNCHANGED <<nEnable, polled, build, term_size, term, win_size, content, cursor_x, cursor_y, key,
                   result, unwinding, fault, exit_status, release, frameWrites,
                   lastWritten, nRefresh, nReads, nMoves, nPolls>>

\* a main that drops the result of enable_raw_mode instead of applying `?`
EnableUnchecked ==
    /\ pc = "enable"
    /\ nEnable' = nEnable + 1
    /\ \E ok \in BOOLEAN :
          /\ term' = [term EXCEPT !.raw = ok]
          /\ fault' = IF ok THEN fault ELSE "enable"
          /\ pc' = "new"
          /\ UNCHANGED <<result, unwinding>>
    /\ UNCHANGED <<polled, build, guard, term_size, win_size, content, cursor_x, cursor_y, key,
                   exit_status, release, frameWrites, lastWritten, nRefresh, nReads,
                   nMoves, nPolls>>

\* main: terminal::enable_raw_mode()?
EnableRawMode ==
    /\ pc = "enable"
    /\ nEnable' = nEnable + 1
    /\ \E ok \in BOOLEAN :
          IF ok
          THEN /\ term' = [term EXCEPT !.raw = TRUE]
               /\ pc' = "new"
               /\ UNCHANGED <<result, fault, unwinding>>
          ELSE /\ Fail("enable")
               /\ UNCHANGED term
    /\ UNCHANGED <<polled, build, guard, term_size, win_size, content, cursor_x, cursor_y, key,
                   exit_status, release, frameWrites, lastWritten, nRefresh, nReads,
                   nMoves, nPolls>>

\* main: Editor::new(), that is Output::new, EditorContents::new and
\* CursorController::new; terminal::size().unwrap() panics on an error
EditorNew ==
    /\ pc = "new"
    /\ \E ok \in BOOLEAN :
          IF ok
          THEN /\ win_size' = term_size
               /\ content' = <<>>
               /\ cursor_x' = 0
               /\ cursor_y' = 0
               /\ pc' = "refresh"
               /\ UNCHANGED <<result, fault, unwinding>>
          ELSE /\ Panic("size")
               /\ UNCHANGED <<win_size, content, cursor_x, cursor_y>>
    /\ UNCHANGED <<nEnable, polled, build, guard, term_size, term, key, exit_status, release,
                   frameWrites, lastWritten, nRefresh, nReads, nMoves, nPolls>>

\* Editor::run entered; Output::refresh_screen: the first queue!
RefreshBegin ==
    /\ pc = "refresh"
    /\ nRefresh < MaxIter
    /\ LET st == queue([result |-> "Ok", content |-> content, stdout |-> <<>>],
                       <<"Hide", "ClearAll", "MoveTo(0,0)">>)
       IN  /\ content' = st.content
           /\ term' = apply_tokens(term, st.stdout, term_size)
           /\ frameWrites' = IF st.stdout = <<>> THEN 0 ELSE 1
           /\ lastWritten' = IF st.stdout = <<>> THEN lastWritten ELSE st.stdout
           /\ IF st.result = "Err"
              THEN Fail("refresh")
              ELSE /\ pc' = "draw_rows"
                   /\ UNCHANGED <<result, fault, unwinding>>
    /\ UNCHANGED <<nEnable, polled, build, guard, term_size, win_size, cursor_x, cursor_y, key,
                   exit_status, release, nRefresh, nReads, nMoves, nPolls>>

\* Output::refresh_screen: self.draw_rows(); its queue!(..).unwrap() panics on an error
DrawRows ==
    /\ pc = "draw_rows"
    /\ LET st == draw_rows([result |-> "Ok", content |-> content, stdout |-> <<>>],
                           win_size)
       IN  /\ content' = st.content
           /\ Staged(st)
           /\ IF st.result = "Err"
              THEN Panic("refresh")
              ELSE /\ pc' = "refresh_end"
                   /\ UNCHANGED <<result, fault, unwinding>>
    /\ UNCHANGED <<nEnable, polled, build, guard, term_size, win_size, cursor_x, cursor_y, key,
                   exit_status, release, nRefresh, nReads, nMoves, nPolls>>

\* a refresh_screen whose last move goes to the cursor the controller holds
RefreshEndAtCursor ==
    /\ pc = "refresh_end"
    /\ LET to == IF cursor_x = 0 /\ cursor_y = 0 THEN "MoveTo(0,0)" ELSE "MoveTo(x,y)"
           st == queue([result |-> "Ok", content |-> content, stdout |-> <<>>],
                       <<to, "Show">>)
       IN  /\ content' = st.content
           /\ Staged(st)
           /\ IF st.result = "Err"
              THEN Fail("refresh")
              ELSE /\ pc' = "flush"
                   /\ UNCHANGED <<result, fault, unwinding>>
    /\ UNCHANGED <<nEnable, polled, build, guard, term_size, win_size, cursor_x, cursor_y, key,
                   exit_status, release, nRefresh, nReads, nMoves, nPolls>>

\* Output::refresh_screen: the second queue!
RefreshEnd ==
    /\ pc = "refresh_end"
    /\ LET st == queue([result |-> "Ok", content |-> content, stdout |-> <<>>],
                       <<"MoveTo(0,0)", "Show">>)
       IN  /\ content' = st.content
           /\ Staged(st)
           /\ IF st.result = "Err"
              THEN Fail("refresh")
              ELSE /\ pc' = "flush"
                   /\ UNCHANGED <<result, fault, unwinding>>
    /\ UNCHANGED <<nEnable, polled, build, guard, term_size, win_size, cursor_x, cursor_y, key,
                   exit_status, release, nRefresh, nReads, nMoves, nPolls>>

\* a run that drops the value of refresh_screen instead of applying `?` to it
FlushUnchecked ==
    /\ pc = "flush"
    /\ \E wok, fok \in BOOLEAN :
       \E n \in IF wok THEN {Len(content)} ELSE CutPoints(content) :
          LET r == flush(content, wok, fok, n)
          IN  /\ content' = r.content
              /\ Emit(r.stdout, r.writes)
              /\ fault' = IF r.result = "Err" THEN "refresh" ELSE fault
              /\ nRefresh' = nRefresh + 1
              /\ nPolls' = 0
              /\ pc' = "read_key"
              /\ UNCHANGED <<result, unwinding>>
    /\ UNCHANGED <<nEnable, polled, build, guard, term_size, win_size, cursor_x, cursor_y, key,
                   exit_status, release, nReads, nMoves>>

\* Output::refresh_screen: self.editor_contents.flush(), the value refresh_screen
\* returns; Editor::run: `?` on it, then process_keypress calls read_key
Flush ==
    /\ pc = "flush"
    /\ \E wok, fok \in BOOLEAN :
       \E n \in IF wok THEN {Len(content)} ELSE CutPoints(content) :
          LET r == flush(content, wok, fok, n)
          IN  /\ content' = r.content
              /\ Emit(r.stdout, r.writes)
              /\ IF r.result = "Err"
                 THEN /\ Fail("refresh")
                      /\ UNCHANGED <<nRefresh, nPolls>>
                 ELSE /\ nRefresh' = nRefresh + 1
                      /\ nPolls' = 0
                      /\ pc' = "read_key"
                      /\ UNCHANGED <<result, fault, unwinding>>
    /\ UNCHANGED <<nEnable, polled, build, guard, term_size, win_size, cursor_x, cursor_y, key,
                   exit_status, release, nReads, nMoves>>

\* what one turn of read_key's loop can get from the input source: a poll that
\* times out or fails, a read that fails, a non-key event, or a key event
NonKeyEvents == {"Resize", "FocusGained", "FocusLost", "Paste", "Mouse"}
PollOutcomes == {"timeout", "poll_err", "read_err", "Key"} \cup NonKeyEvents

\* a read_key that takes a poll timeout for a failure
read_key_timeout_fails(ev) ==
    CASE ev \in {"poll_err", "timeout"} -> [verdict |-> "error", what |-> "poll"]
      [] ev = "read_err" -> [verdict |-> "error", what |-> "read"]
      [] ev = "Key" -> [verdict |-> "return", what |-> "none"]
      [] OTHER -> [verdict |-> "retry", what |-> "none"]

\* Reader::read_key: one turn of its loop on the outcome ev. "error" is the `?`
\* returning Err, "return" is return Ok(event), "retry" is the next turn.
read_key(ev) ==
    CASE ev = "poll_err" -> [verdict |-> "error", what |-> "poll"]
      [] ev = "timeout" -> [verdict |-> "retry", what |-> "none"]
      [] ev = "read_err" -> [verdict |-> "error", what |-> "read"]
      [] ev = "Key" -> [verdict |-> "return", what |-> "none"]
      [] OTHER -> [verdict |-> "retry", what |-> "none"]

\* Reader::read_key: event::poll times out, or event::read returns an event
\* that is no key event; the loop polls again
ReadKeyRetry ==
    /\ pc = "read_key"
    /\ nPolls < MaxPolls
    /\ \E ev \in PollOutcomes :
          /\ read_key(ev).verdict = "retry"
          /\ polled' = ev
    /\ nPolls' = nPolls + 1
    /\ UNCHANGED <<nEnable, pc, build, guard, term_size, term, win_size, content, cursor_x,
                   cursor_y, key, result, unwinding, fault, exit_status, release,
                   frameWrites, lastWritten, nRefresh, nReads, nMoves>>

\* Reader::read_key: event::poll(..)? or event::read()? fails; the `?` of
\* process_keypress, run and main pass the error on
ReadKeyError ==
    /\ pc = "read_key"
    /\ \E ev \in PollOutcomes :
          /\ read_key(ev).verdict = "error"
          /\ polled' = ev
          /\ Fail(read_key(ev).what)
    /\ UNCHANGED <<nEnable, build, guard, term_size, term, win_size, content, cursor_x,
                   cursor_y, key, exit_status, release, frameWrites, lastWritten,
                   nRefresh, nReads, nMoves, nPolls>>

\* Reader::read_key: event::read returns Event::Key(k), which read_key returns
ReadKeyEvent ==
    /\ pc = "read_key"
    /\ \E ev \in PollOutcomes :
          /\ read_key(ev).verdict = "return"
          /\ polled' = ev
    /\ \E k \in KeyEvents : key' = k
    /\ nReads' = nReads + 1
    /\ pc' = "dispatch"
    /\ UNCHANGED <<nEnable, build, guard, term_size, term, win_size, content, cursor_x,
                   cursor_y, result, unwinding, fault, exit_status, release,
                   frameWrites, lastWritten, nRefresh, nMoves, nPolls>>

\* a loop that refreshes once and then only reads keys
DispatchNoRefresh ==
    /\ pc = "dispatch"
    /\ LET r == process_keypress(key, cursor_x, cursor_y, build)
       IN  /\ cursor_x' = r.x
           /\ cursor_y' = r.y
           /\ nMoves' = IF r.moved THEN nMoves + 1 ELSE nMoves
           /\ CASE r.outcome = "quit" ->
                     /\ result' = "Ok"
                     /\ pc' = "drop"
                     /\ UNCHANGED <<key, fault, unwinding>>
                [] r.outcome = "panic" ->
                     /\ Panic(r.why)
                     /\ UNCHANGED key
                [] OTHER ->
                     /\ key' = NoKey
                     /\ pc' = IF nReads < MaxIter THEN "read_key" ELSE "refresh"
                     /\ UNCHANGED <<result, fault, unwinding>>
    /\ UNCHANGED <<nEnable, polled, build, guard, term_size, term, win_size, content, exit_status,
                   release, frameWrites, lastWritten, nRefresh, nReads, nPolls>>

\* Editor::process_keypress: the match on the key event; main: while editor.run()? {}
Dispatch ==
    /\ pc = "dispatch"
    /\ LET r == process_keypress(key, cursor_x, cursor_y, build)
       IN  /\ cursor_x' = r.x
           /\ cursor_y' = r.y
           /\ nMoves' = IF r.moved THEN nMoves + 1 ELSE nMoves
           /\ CASE r.outcome = "quit" ->
                     /\ result' = "Ok"
                     /\ pc' = "drop"
                     /\ UNCHANGED <<key, fault, unwinding>>
                [] r.outcome = "panic" ->
                     /\ Panic(r.why)
                     /\ UNCHANGED key
                [] OTHER ->
                     /\ key' = NoKey
                     /\ pc' = "refresh"
                     /\ UNCHANGED <<result, fault, unwinding>>
    /\ UNCHANGED <<nEnable, polled, build, guard, term_size, term, win_size, content, exit_status,
                   release, frameWrites, lastWritten, nRefresh, nReads, nPolls>>

\* main is left, by return or by unwinding: _clean_up is dropped and the
\* process exits
Drop ==
    /\ pc = "drop"
    /\ guard
    /\ \E dok, c1ok, c2ok \in BOOLEAN :
          LET r == drop(term, term_size, unwinding, result, dok, c1ok, c2ok)
          IN  /\ term' = r.term
              /\ release' = r.release
              /\ exit_status' = r.status
    /\ guard' = FALSE
    /\ pc' = "exited"
    /\ UNCHANGED <<nEnable, polled, build, term_size, win_size, content, cursor_x, cursor_y, key,
                   result, unwinding, fault, frameWrites, lastWritten, nRefresh,
                   nReads, nMoves, nPolls>>

Next ==
    \/ MainGuard
    \/ EnableRawMode
    \/ EditorNew
    \/ RefreshBegin
    \/ DrawRows
    \/ RefreshEnd
    \/ Flush
    \/ ReadKeyRetry
    \/ ReadKeyError
    \/ ReadKeyEvent
    \/ Dispatch
    \/ Drop

Spec == Init /\ [][Next]_vars

\* The program up to the staging of its first frame, on terminals wide enough
\* for the whole banner and its padding
DrawInit == Start((1..MaxDrawColumns) \X (1..MaxDrawRows))

DrawNext ==
    \/ MainGuard
    \/ EnableRawMode
    \/ EditorNew
    \/ RefreshBegin
    \/ DrawRows
    \/ RefreshEnd

DrawSpec == DrawInit /\ [][DrawNext]_vars

\* read_key does not read the terminal size: one size is enough to follow it
LiveInit == Init /\ term_size = <<1, 1>>

\* The program with an input source that does deliver a key event to a
\* read_key that keeps polling: read_key's loop has no exit but its returns, so
\* a key event that stays available is eventually read.
LiveSpec == LiveInit /\ [][Next]_vars /\ WF_vars(ReadKeyEvent)

----------------------------------------------------------------------------
(* Session lifecycle *)

IoFaults == {"refresh", "poll", "read"}

\* C1 as stated: whenever the process has terminated (after the quit key, an
\* I/O error, a failure of enable or a panic), the terminal is not in raw mode.
C1_NoRawModeAfterExit ==
    pc = "exited" => ~term.raw

\* C1 as amended: whenever the process has terminated, the guard's release has
\* run, and the terminal is out of raw mode unless disable_raw_mode itself
\* failed in the release, which then panicked (aborted, during an unwind).
C1_ReleasedOnEveryExit ==
    /\ exit_status # "running" <=> pc = "exited"
    /\ pc = "exited" =>
          /\ release # "none"
          /\ ~guard
          /\ term.raw => release = "disable_failed"
          /\ release = "disable_failed" =>
                exit_status = (IF unwinding THEN "abort" ELSE "panic")

\* C1 witness: a panic inside the loop unwound main, the release ran and the
\* terminal is out of raw mode.
C1_Witness ==
    /\ pc = "exited"
    /\ unwinding
    /\ fault = "overflow"
    /\ release = "done"
    /\ ~term.raw

\* C2: whenever the guard has been released, the whole screen is clear and
\* the terminal's write position is (0,0).
C2_ScreenClearedOnRelease ==
    release # "none" => term.cells = {} /\ term.cur = <<0, 0>>

----------------------------------------------------------------------------
(* Event loop *)

\* C3's parts that do not depend on the release: the quit key is dispatched
\* after exactly one refresh of its own, it ends the loop with Ok, and nothing
\* is refreshed, read or moved afterwards.
QuitEndsLoop ==
    /\ [](key = QuitKey /\ pc \in {"dispatch", "drop", "exited"} => nRefresh = nReads)
    /\ [][key = QuitKey /\ pc = "dispatch" =>
             pc' = "drop" /\ result' = "Ok" /\ ~unwinding']_vars
    /\ [][result = "Ok" =>
             /\ nReads' = nReads
             /\ nRefresh' = nRefresh
             /\ nMoves' = nMoves
             /\ pc' \in {"drop", "exited"}]_vars
    /\ [](result = "Ok" => key = QuitKey)

\* C3 as stated: the quit key ends the loop after exactly one more refresh and
\* no further key read, and the process then exits with success.
C3_QuitReturnsSuccess ==
    /\ QuitEndsLoop
    /\ [](pc = "exited" /\ result = "Ok" => exit_status = "success")

\* C3 as amended: the quit key ends the loop after exactly one more refresh
\* and no further key read, and the process then exits with success unless the
\* guard's release panics.
C3_QuitStopsLoop ==
    /\ QuitEndsLoop
    /\ [](pc = "exited" /\ result = "Ok" =>
             IF release = "done" THEN exit_status = "success"
             ELSE exit_status = "panic")

\* C3 witness: the quit key was read as the third key and the process exited
\* with success.
C3_Witness ==
    /\ pc = "exited"
    /\ key = QuitKey
    /\ nReads = 3
    /\ nRefresh = 3
    /\ exit_status = "success"

\* C4: refreshes and key reads alternate, starting with a refresh: a key is
\* read only when one refresh has completed since the previous read, a refresh
\* completes only when every earlier refresh had its key read, and each key is
\* dispatched to at most one cursor transition.
C4_RefreshReadAlternate ==
    /\ [](nReads <= nRefresh /\ nRefresh <= nReads + 1 /\ nMoves <= nReads)
    /\ [][nReads' # nReads =>
             nReads' = nReads + 1 /\ nRefresh = nReads + 1 /\ nRefresh' = nRefresh]_vars
    /\ [][nRefresh' # nRefresh =>
             nRefresh' = nRefresh + 1 /\ nRefresh = nReads /\ nReads' = nReads]_vars
    /\ [][nMoves' # nMoves =>
             nMoves' = nMoves + 1 /\ pc = "dispatch" /\ pc' # "dispatch"
             /\ nReads' = nReads]_vars
    /\ [](pc = "dispatch" => nRefresh = nReads)
    /\ [](pc = "read_key" => nRefresh = nReads + 1)

\* C4 witness: the third refresh has completed and two keys have been read.
C4_Witness ==
    /\ pc = "read_key"
    /\ nRefresh = 3
    /\ nReads = 2
    /\ nMoves = 1

----------------------------------------------------------------------------
(* Cursor state *)

Constructed == pc \notin {"main", "enable", "new"}

\* C5: once the editor exists, the cursor is inside the screen:
\* 0 <= x < columns and 0 <= y < rows.
C5_CursorInsideScreen ==
    Constructed /\ win_size # <<0, 0>> =>
        /\ 0 <= cursor_x /\ cursor_x < win_size[1]
        /\ 0 <= cursor_y /\ cursor_y < win_size[2]

\* a cursor transition is being invoked by this step
Moves == pc = "dispatch" /\ nMoves' = nMoves + 1

\* C6: a cursor transition that does not overflow is a pure delta: up is
\* (x, y-1), left is (x-1, y), down is (x, y+1), right is (x+1, y); the other
\* coordinate, the terminal size and the frame buffer are unchanged.
C6_PureDeltas ==
    [][Moves =>
         /\ win_size' = win_size
         /\ content' = content
         /\ key.code \in MoveChars
         /\ (key.code = "w" /\ cursor_y > 0 =>
                cursor_x' = cursor_x /\ cursor_y' = cursor_y - 1)
         /\ (key.code = "a" /\ cursor_x > 0 =>
                cursor_x' = cursor_x - 1 /\ cursor_y' = cursor_y)
         /\ (key.code = "s" /\ cursor_y < UsizeMax =>
                cursor_x' = cursor_x /\ cursor_y' = cursor_y + 1)
         /\ (key.code = "d" /\ cursor_x < UsizeMax =>
                cursor_x' = cursor_x + 1 /\ cursor_y' = cursor_y)]_vars

\* C6 witness: right, down and left have been applied from (0,0).
C6_Witness ==
    /\ nMoves = 3
    /\ cursor_x = 0
    /\ cursor_y = 1
    /\ ~unwinding

\* C7: a key that is neither the quit key nor a movement character without
\* modifiers leaves the cursor unchanged and the loop continues; a movement
\* character without modifiers invokes its cursor transition and the loop
\* continues.
C7_DispatchContinues ==
    [][pc = "dispatch" /\ key # QuitKey =>
         /\ pc' = "refresh"
         /\ IF key.code \in MoveChars /\ key.modifiers = NONE
            THEN nMoves' = nMoves + 1
            ELSE nMoves' = nMoves /\ cursor_x' = cursor_x /\ cursor_y' = cursor_y]_vars

----------------------------------------------------------------------------
(* Screen buffer and renderer *)

\* C8: when flush returns, with Ok or with an error, the buffer is empty.
C8_FlushAlwaysClears ==
    [][pc = "flush" => content' = <<>>]_vars

Header == <<"Hide", "ClearAll", "MoveTo(0,0)">>
Footer == <<"MoveTo(0,0)", "Show">>

IsPrefix(a, b) == Len(a) <= Len(b) /\ SubSeq(b, 1, Len(a)) = a

\* C9: while a frame is staged nothing reaches the device and the buffer only
\* grows; a successful refresh makes exactly one device write, as its last
\* step, of the whole staged frame in staging order.
C9_OneWritePerFrame ==
    /\ [](pc \in {"draw_rows", "refresh_end", "flush"} => frameWrites = 0)
    /\ [][(pc \in {"refresh", "draw_rows", "refresh_end"}) =>
             /\ IsPrefix(content, content')
             /\ content' # content
             /\ term' = term
             /\ lastWritten' = lastWritten]_vars
    /\ [](pc = "flush" =>
             /\ IsPrefix(Header, content)
             /\ SubSeq(content, Len(content) - 1, Len(content)) = Footer)
    /\ [][pc = "flush" /\ pc' = "read_key" =>
             /\ term' = apply_tokens(term, content, term_size)
             /\ lastWritten' = content
             /\ frameWrites' = 1]_vars
    /\ [](pc \in {"read_key", "dispatch"} => frameWrites = 1)

\* C9 witness: the second frame has been written to the device in one write.
C9_Witness ==
    /\ pc = "read_key"
    /\ nRefresh = 2
    /\ frameWrites = 1
    /\ IsPrefix(Header, lastWritten)
    /\ term.cells # {}

----------------------------------------------------------------------------
(* Errors *)

\* C10: an I/O error from refresh or from the key read ends the loop at once:
\* main returns the error, nothing is refreshed, read or moved afterwards, the
\* guard's release runs and the exit status is not success.
C10_IoErrorStopsLoop ==
    /\ [][(fault = "none" /\ fault' \in IoFaults) =>
             pc' = "drop" /\ result' = "Err"]_vars
    /\ [][(fault \in IoFaults) =>
             /\ nRefresh' = nRefresh
             /\ nReads' = nReads
             /\ nMoves' = nMoves
             /\ cursor_x' = cursor_x
             /\ cursor_y' = cursor_y
             /\ fault' = fault
             /\ pc' = "exited"]_vars
    /\ [](fault \in IoFaults /\ pc = "exited" =>
             /\ release # "none"
             /\ exit_status \in {"error", "panic"})

\* C10 witness: the second key read failed and the process exited with an
\* error status after the release.
C10_Witness ==
    /\ pc = "exited"
    /\ fault = "read"
    /\ nReads = 1
    /\ release = "done"
    /\ exit_status = "error"

----------------------------------------------------------------------------
(* Input reader *)

\* C11: read_key returns only key events: a poll timeout and a non-key event
\* are discarded without a return and without an error, and read_key polls
\* again; a poll or read failure is returned as an error; and a read_key that
\* is offered a key event eventually returns a key event, unless poll or read
\* fails first.
C11_ReadKeyReturnsKeys ==
    /\ [][(pc = "read_key") =>
             /\ polled' \in PollOutcomes
             /\ (polled' \in NonKeyEvents \cup {"timeout"} =>
                    /\ pc' = "read_key"
                    /\ nReads' = nReads
                    /\ key' = key
                    /\ result' = result
                    /\ fault' = "none")
             /\ (polled' \in {"poll_err", "read_err"} =>
                    /\ pc' = "drop"
                    /\ nReads' = nReads
                    /\ result' = "Err"
                    /\ fault' = (IF polled' = "poll_err" THEN "poll" ELSE "read"))
             /\ (polled' = "Key" =>
                    /\ pc' = "dispatch"
                    /\ nReads' = nReads + 1
                    /\ key' \in KeyEvents
                    /\ fault' = "none")]_vars
    /\ [][nReads' # nReads => polled' = "Key" /\ key' \in KeyEvents]_vars
    /\ (pc = "read_key" ~> (pc = "dispatch" \/ fault \in {"poll", "read"}))

\* C11 witness: read_key discarded a timeout and a mouse event and is still
\* polling.
C11_Witness ==
    /\ pc = "read_key"
    /\ nPolls = 2
    /\ polled = "Mouse"
    /\ fault = "none"
    /\ nReads = 1

----------------------------------------------------------------------------
(* draw_rows *)

\* what draw_rows has staged, once it has run: the buffer after the header
StagedRows == SubSeq(content, Len(Header) + 1, Len(content))

Count(seq, tok) == Cardinality({i \in 1..Len(seq) : seq[i] = tok})

\* a character of a row, as opposed to a command or a part of a line break
IsText(tok) == tok \notin Commands \cup {"\r", "\n"}

\* C12: for columns >= 1 and rows >= 1, draw_rows stages exactly `rows` row
\* segments, each immediately followed by one clear-to-end-of-line, and exactly
\* rows - 1 line breaks, one after every row but the last.
C12_RowsClearsBreaks ==
    pc = "refresh_end" =>
        LET R == StagedRows
            n == Len(R)
            rows == win_size[2]
        IN  /\ Count(R, "ClearUntilNewLine") = rows
            /\ Count(R, "\r") = rows - 1
            /\ Count(R, "\n") = rows - 1
            /\ Cardinality({i \in 1..n : IsText(R[i]) /\ (i = 1 \/ ~IsText(R[i - 1]))})
                  = rows
            /\ n > 0 /\ R[n] = "ClearUntilNewLine"
            /\ \A i \in 1..n :
                  /\ IsText(R[i]) =>
                        i < n /\ (IsText(R[i + 1]) \/ R[i + 1] = "ClearUntilNewLine")
                  /\ R[i] = "ClearUntilNewLine" =>
                        /\ i > 1 /\ IsText(R[i - 1])
                        /\ i < n => (i + 2 <= n /\ R[i + 1] = "\r" /\ R[i + 2] = "\n")
                  /\ R[i] = "\r" => i > 1 /\ R[i - 1] = "ClearUntilNewLine"
                  /\ R[i] = "\n" => i > 1 /\ R[i - 1] = "\r"
                  /\ R[i] \notin Commands \ {"ClearUntilNewLine"}

\* C12 witness: draw_rows has staged the rows of a 40 x 24 terminal.
C12_Witness ==
    /\ pc = "refresh_end"
    /\ win_size = <<40, 24>>
    /\ Count(StagedRows, "\n") = 23

\* the positions of the clear-to-end-of-line commands among the staged rows
ClearAt == {p \in 1..Len(StagedRows) : StagedRows[p] = "ClearUntilNewLine"}

\* the position of the clear-to-end-of-line that ends the row with index i
RowEnd(i) == CHOOSE p \in ClearAt : Cardinality({q \in ClearAt : q < p}) = i

\* the text of the row with index i (the first row has index 0): what is
\* staged between the previous row's clear-to-end-of-line and its own, without
\* the line break
RowAt(i) ==
    LET from == IF i = 0 THEN 1 ELSE RowEnd(i - 1) + 1
    IN  SelectSeq(SubSeq(StagedRows, from, RowEnd(i) - 1), IsText)

\* the first n characters of the banner
BannerPrefix(n) == SubSeq(welcome_text, 1, Min(n, Len(welcome_text)))

EndsWith(row, text) ==
    /\ Len(text) <= Len(row)
    /\ SubSeq(row, Len(row) - Len(text) + 1, Len(row)) = text

Spaces(n) == [k \in 1..n |-> " "]

\* C13: for rows >= 3 the banner is drawn on exactly one row, the row with
\* index rows / 3, and every other row is the single marker '~'.
C13_BannerRowIndex ==
    pc = "refresh_end" /\ win_size[2] >= 3 =>
        /\ Cardinality(ClearAt) = win_size[2]
        /\ \A i \in 0..(win_size[2] - 1) :
              IF i = win_size[2] \div 3
              THEN /\ RowAt(i) # <<"~">>
                   /\ EndsWith(RowAt(i), BannerPrefix(win_size[1]))
              ELSE RowAt(i) = <<"~">>

\* C13 witness: on a terminal of 24 rows the banner is on the row with index 8.
C13_Witness ==
    /\ pc = "refresh_end"
    /\ win_size = <<41, 24>>
    /\ EndsWith(RowAt(8), welcome_text)
    /\ RowAt(7) = <<"~">>
    /\ RowAt(9) = <<"~">>

\* C14: for columns >= 30 the banner row has padding p = (columns - 30) / 2:
\* when p is not zero it is '~', p - 1 spaces and the 30-character banner, when
\* p is zero it is the banner alone.
C14_BannerCentred ==
    pc = "refresh_end" /\ win_size[1] >= Len(welcome_text) =>
        LET p == (win_size[1] - Len(welcome_text)) \div 2
            row == RowAt(win_size[2] \div 3)
        IN  /\ Len(welcome_text) = 30
            /\ IF p # 0
               THEN row = <<"~">> \o Spaces(p - 1) \o welcome_text
               ELSE row = welcome_text

\* C14 witness: with 40 columns the banner row is '~', 4 spaces and the banner.
C14_Witness ==
    /\ pc = "refresh_end"
    /\ win_size[1] = 40
    /\ RowAt(win_size[2] \div 3) = <<"~", " ", " ", " ", " ">> \o welcome_text

\* C15: for columns < 30 the banner row is exactly the first `columns`
\* characters of the banner, without marker and spaces; for every size the
\* banner row is no wider than `columns`.
C15_BannerTruncated ==
    pc = "refresh_end" =>
        LET row == RowAt(win_size[2] \div 3)
        IN  /\ Len(row) <= win_size[1]
            /\ win_size[1] < Len(welcome_text) =>
                  /\ row = SubSeq(welcome_text, 1, win_size[1])
                  /\ Len(row) = win_size[1]

\* C15 witness: with 10 columns the banner row is the first 10 characters.
C15_Witness ==
    /\ pc = "refresh_end"
    /\ win_size[1] = 10
    /\ RowAt(win_size[2] \div 3) = <<"P", "o", "u", "n", "d", " ", "E", "d", "i", "t">>

----------------------------------------------------------------------------
(* Raw mode *)

BeforeEnabled == pc \in {"main", "enable"}

C17_NoGuardWithoutRawMode ==
    /\ guard => nEnable = 1 /\ fault # "enable"
    /\ fault = "enable" => ~guard /\ release = "none"

----------------------------------------------------------------------------
(* C18: the frame *)

\* the rows draw_rows stages into an empty buffer for a window of `size`
RowsFor(size) ==
    draw_rows([result |-> "Ok", content |-> <<>>, stdout |-> <<>>], size).content

\* the frame of a window of `size`: no cursor position enters it
FrameFor(size) == Header \o RowsFor(size) \o Footer

\* C18: every frame is staged in the order hide cursor, clear entire screen,
\* move to (0,0), the rows, move to (0,0), show cursor, and then flushed; the
\* last move is to (0,0) wherever the cursor is, so the frame staged, and the
\* frame a successful flush hands to the device, is the one frame of the
\* terminal size, for every cursor position the key presses have reached.
C18_FrameFixedOrder ==
    /\ pc = "draw_rows" => content = Header
    /\ pc = "refresh_end" => content = Header \o RowsFor(win_size)
    /\ pc = "flush" =>
          /\ content = FrameFor(win_size)
          /\ SubSeq(content, Len(content) - 1, Len(content)) = <<"MoveTo(0,0)", "Show">>
          /\ frameWrites = 0
    /\ \A i \in 1..Len(RowsFor(win_size)) :
          RowsFor(win_size)[i] \notin {"Hide", "Show", "ClearAll", "MoveTo(0,0)"}
    /\ pc \in {"read_key", "dispatch"} =>
          /\ lastWritten = FrameFor(win_size)
          /\ frameWrites = 1

C18_Witness ==
    /\ pc = "flush"
    /\ nRefresh = 2
    /\ cursor_x = 1
    /\ cursor_y = 1
    /\ content = FrameFor(win_size)
    /\ lastWritten = content

----------------------------------------------------------------------------
(* C19: nothing is carried from one frame to the next *)

\* C19: at the start of every refresh the buffer is empty, and it stays empty
\* while keys are read and dispatched; what a refresh writes to the device
\* holds one frame and no more: it opens with the header of that frame and has
\* one hide and at most one show in it.
C19_BufferEmptyAtRefresh ==
    /\ pc \in {"refresh", "read_key", "dispatch"} => content = <<>>
    /\ pc \in {"draw_rows", "refresh_end", "flush"} =>
          /\ IsPrefix(Header, content)
          /\ Count(content, "Hide") = 1
          /\ Count(content, "ClearAll") = 1
    /\ nRefresh >= 1 /\ pc \in {"refresh", "draw_rows", "refresh_end", "flush", "read_key",
                                 "dispatch"} =>
          /\ IsPrefix(Header, lastWritten)
          /\ Count(lastWritten, "Hide") = 1
          /\ Count(lastWritten, "ClearAll") = 1
          /\ Count(lastWritten, "Show") = 1
          /\ Len(lastWritten) = Len(FrameFor(win_size))

C19_Witness ==
    /\ pc = "refresh"
    /\ nRefresh = 2
    /\ nReads = 2
    /\ content = <<>>
    /\ lastWritten = FrameFor(win_size)

----------------------------------------------------------------------------
(* C20: unimplemented!() *)

\* C20: the dispatcher hands move_cursor a direction only for an unmodified
\* 'w', 'a', 's' or 'd', so the unimplemented!() arm of move_cursor is never
\* taken: no run faults through it, and every step that moves the cursor was
\* dispatched on one of the four keys.
C20_UnimplementedUnreachable ==
    /\ [](fault # "unimplemented")
    /\ [](pc = "dispatch" =>
            LET r == process_keypress(key, cursor_x, cursor_y, build)
            IN  /\ r.why # "unimplemented"
                /\ r.moved => r.direction \in MoveChars /\ key.modifiers = NONE
                /\ r.direction \in MoveChars \cup {"none"})
    /\ [][nMoves' # nMoves => key.code \in MoveChars /\ key.modifiers = NONE]_vars

C20_Witness ==
    /\ nMoves = 4
    /\ cursor_x = 2
    /\ cursor_y = 2
    /\ fault = "none"
    /\ pc = "refresh"

----------------------------------------------------------------------------
(* Types *)

TypeOK ==
    /\ pc \in {"main", "enable", "new", "refresh", "draw_rows", "refresh_end", "flush",
               "read_key", "dispatch", "drop", "exited"}
    /\ cursor_x \in 0..UsizeMax
    /\ cursor_y \in 0..UsizeMax
    /\ exit_status \in {"running", "success", "error", "panic", "abort"}
    /\ nReads <= nRefresh
    /\ nRefresh <= MaxIter

====
